---- MODULE Spec2Model ----
(***************************************************************************)
(* Vec4Mask (src/f32/vec4_mask.rs): a four-lane boolean mask wrapping one  *)
(* of two build-time storage backends.  The model runs both builds side by *)
(* side on the same inputs: m[k] is the register file of the build whose   *)
(* Inner type is backend k.  A u32 is modelled as the pair of its 16-bit   *)
(* halves, which keeps the full 32-bit width.                              *)
(***************************************************************************)
EXTENDS Integers, Sequences, FiniteSets

VARIABLES m, last, ret

vars == <<m, last, ret>>

(* The two mutually exclusive definitions of `type Inner`. *)
Backends == {"sse2", "scalar"}

(* The mask variables of the client program: a and b are operands, c holds *)
(* copies and results.                                                     *)
Regs == {"a", "b", "c"}

---------------------------------------------------------------------------
(* u32 words: a word is <<hi, lo>>, its upper and lower 16 bits, so that   *)
(* every value of the 32-bit width is representable.                       *)

Half == 2 ^ 16

ZERO == <<0, 0>>

ALL1 == <<Half - 1, Half - 1>>

(* The word holding 1 in its lowest bit. *)
ONE == <<0, 1>>

(* Bitwise AND and OR of two 16-bit halves, bit by bit from the lowest. *)
RECURSIVE and16(_, _)
and16(p, q) ==
    IF p = 0 \/ q = 0 THEN 0
    ELSE (p % 2) * (q % 2) + 2 * and16(p \div 2, q \div 2)

RECURSIVE or16(_, _)
or16(p, q) ==
    IF p = 0 THEN q
    ELSE IF q = 0 THEN p
    ELSE (IF p % 2 = 1 \/ q % 2 = 1 THEN 1 ELSE 0) + 2 * or16(p \div 2, q \div 2)

u32_and(u, v) == <<and16(u[1], v[1]), and16(u[2], v[2])>>

u32_or(u, v) == <<or16(u[1], v[1]), or16(u[2], v[2])>>

u32_not(u) == <<Half - 1 - u[1], Half - 1 - u[2]>>

(* u << n for n < 16, bits shifted past bit 31 dropped. *)
u32_shl(u, n) ==
    <<(u[1] * 2 ^ n + u[2] \div 2 ^ (16 - n)) % Half, (u[2] * 2 ^ n) % Half>>

(* Bit 31 of a word. *)
sign_bit(u) == u[1] \div 2 ^ 15

u32_lt(u, v) == u[1] < v[1] \/ (u[1] = v[1] /\ u[2] < v[2])

u32_cmp(u, v) ==
    IF u = v THEN "Equal" ELSE IF u32_lt(u, v) THEN "Less" ELSE "Greater"

---------------------------------------------------------------------------
(* Backend storage and the mask capability surface (crate::vector_traits   *)
(* and the two backend modules).  An sse2 Inner is a __m128: a tuple of    *)
(* four lane words, lane 0 at the lowest address.  A scalar Inner is an    *)
(* XYZW<u32>: a record of four fields laid out in declaration order.       *)

MASK(b) == IF b THEN ALL1 ELSE ZERO

mm_and_ps(p, q) == [i \in 1 .. 4 |-> u32_and(p[i], q[i])]

mm_or_ps(p, q) == [i \in 1 .. 4 |-> u32_or(p[i], q[i])]

(* (NOT p) AND q, over the whole register. *)
mm_andnot_ps(p, q) == [i \in 1 .. 4 |-> u32_and(u32_not(p[i]), q[i])]

(* The sign bit of each lane, lane i in bit i. *)
mm_movemask_ps(p) ==
    <<0, sign_bit(p[1]) + 2 * sign_bit(p[2]) + 4 * sign_bit(p[3]) + 8 * sign_bit(p[4])>>

MaskVector_FALSE(k) ==
    IF k = "sse2" THEN <<ZERO, ZERO, ZERO, ZERO>>
    ELSE [x |-> ZERO, y |-> ZERO, z |-> ZERO, w |-> ZERO]

(* A constructor that stores the boolean x as the number 1. *)
MaskVector4_new_lane1(k, x, y, z, w) ==
    IF k = "sse2" THEN <<IF x THEN ONE ELSE ZERO, MASK(y), MASK(z), MASK(w)>>
    ELSE [x |-> IF x THEN ONE ELSE ZERO, y |-> MASK(y), z |-> MASK(z), w |-> MASK(w)]

MaskVector4_new(k, x, y, z, w) ==
    IF k = "sse2" THEN <<MASK(x), MASK(y), MASK(z), MASK(w)>>
    ELSE [x |-> MASK(x), y |-> MASK(y), z |-> MASK(z), w |-> MASK(w)]

MaskVector_bitand(k, p, q) ==
    IF k = "sse2" THEN mm_and_ps(p, q)
    ELSE [x |-> u32_and(p.x, q.x), y |-> u32_and(p.y, q.y),
          z |-> u32_and(p.z, q.z), w |-> u32_and(p.w, q.w)]

MaskVector_bitor(k, p, q) ==
    IF k = "sse2" THEN mm_or_ps(p, q)
    ELSE [x |-> u32_or(p.x, q.x), y |-> u32_or(p.y, q.y),
          z |-> u32_or(p.z, q.z), w |-> u32_or(p.w, q.w)]

MaskVector_not(k, p) ==
    IF k = "sse2" THEN mm_andnot_ps(p, <<ALL1, ALL1, ALL1, ALL1>>)
    ELSE [x |-> u32_not(p.x), y |-> u32_not(p.y),
          z |-> u32_not(p.z), w |-> u32_not(p.w)]

(* A bitmask that packs the lanes from w down to x. *)
MaskVector4_bitmask_reversed(k, p) ==
    IF k = "sse2" THEN mm_movemask_ps(<<p[4], p[3], p[2], p[1]>>)
    ELSE u32_or(u32_or(u32_and(p.w, ONE), u32_shl(u32_and(p.z, ONE), 1)),
                u32_or(u32_shl(u32_and(p.y, ONE), 2), u32_shl(u32_and(p.x, ONE), 3)))

MaskVector4_bitmask(k, p) ==
    IF k = "sse2" THEN mm_movemask_ps(p)
    ELSE u32_or(u32_or(u32_and(p.x, ONE), u32_shl(u32_and(p.y, ONE), 1)),
                u32_or(u32_shl(u32_and(p.z, ONE), 2), u32_shl(u32_and(p.w, ONE), 3)))

MaskVector4_any(k, p) ==
    IF k = "sse2" THEN mm_movemask_ps(p) # ZERO
    ELSE u32_and(u32_or(u32_or(p.x, p.y), u32_or(p.z, p.w)), ONE) # ZERO

MaskVector4_all(k, p) ==
    IF k = "sse2" THEN mm_movemask_ps(p) = <<0, 15>>
    ELSE u32_and(u32_and(u32_and(p.x, p.y), u32_and(p.z, p.w)), ONE) # ZERO

(* Vec4::select, the numeric vector type's selection: lane by lane, the    *)
(* lane of if_true where the mask lane is set, else the lane of if_false.  *)
(* A Vec4 is a tuple of four numbers.                                      *)
Vec4_select(k, mask, if_true, if_false) ==
    LET lanes == IF k = "sse2" THEN mask[1]
                 ELSE <<mask[1].x, mask[1].y, mask[1].z, mask[1].w>>
    IN  [i \in 1 .. 4 |-> IF lanes[i] # ZERO THEN if_true[i] ELSE if_false[i]]

---------------------------------------------------------------------------
(* The public wrapper: struct Vec4Mask(Inner), a one-field tuple;          *)
(* self[1] is self.0.                                                      *)

Vec4Mask_default(k) == <<MaskVector_FALSE(k)>>

(* A view that reads the scalar fields from the last to the first. *)
as_ref_reversed(k, self) ==
    IF k = "sse2" THEN self[1]
    ELSE <<self[1].w, self[1].z, self[1].y, self[1].x>>

(* The value's memory read as [u32; 4]. *)
as_ref(k, self) ==
    IF k = "sse2" THEN self[1]
    ELSE <<self[1].x, self[1].y, self[1].z, self[1].w>>

(* [u32; 4]'s own equality, ordering and hashing. *)
array_eq(p, q) == \A i \in 1 .. 4 : p[i] = q[i]

RECURSIVE array_cmp_from(_, _, _)
array_cmp_from(p, q, i) ==
    IF i > 4 THEN "Equal"
    ELSE IF u32_cmp(p[i], q[i]) # "Equal" THEN u32_cmp(p[i], q[i])
    ELSE array_cmp_from(p, q, i + 1)

array_cmp(p, q) == array_cmp_from(p, q, 1)

(* A hasher's state is the sequence of words written to it so far. *)
array_hash(p, state) == state \o p

Vec4Mask_eq(k, self, other) == array_eq(as_ref(k, self), as_ref(k, other))

(* A comparison with its operands exchanged. *)
Vec4Mask_cmp_flipped(k, self, other) == array_cmp(as_ref(k, other), as_ref(k, self))

Vec4Mask_cmp(k, self, other) == array_cmp(as_ref(k, self), as_ref(k, other))

Vec4Mask_partial_cmp(k, self, other) == <<"Some", Vec4Mask_cmp(k, self, other)>>

Vec4Mask_hash(k, self, state) == array_hash(as_ref(k, self), state)

(* A constructor that passes y before x. *)
Vec4Mask_new_swapped(k, x, y, z, w) == <<MaskVector4_new(k, y, x, z, w)>>

Vec4Mask_new(k, x, y, z, w) == <<MaskVector4_new(k, x, y, z, w)>>

Vec4Mask_bitmask(k, self) == MaskVector4_bitmask(k, self[1])

(* An any() that forwards to the backend's all(). *)
Vec4Mask_any_as_all(k, self) == MaskVector4_all(k, self[1])

Vec4Mask_any(k, self) == MaskVector4_any(k, self[1])

Vec4Mask_all(k, self) == MaskVector4_all(k, self[1])

(* A select that passes if_false before if_true. *)
Vec4Mask_select_swapped(k, self, if_true, if_false) ==
    Vec4_select(k, self, if_false, if_true)

Vec4Mask_select(k, self, if_true, if_false) ==
    Vec4_select(k, self, if_true, if_false)

Vec4Mask_bitand(k, self, other) == <<MaskVector_bitand(k, self[1], other[1])>>

(* A bitor that forwards to the backend's bitand. *)
Vec4Mask_bitor_as_and(k, self, other) == <<MaskVector_bitand(k, self[1], other[1])>>

Vec4Mask_bitor(k, self, other) == <<MaskVector_bitor(k, self[1], other[1])>>

Vec4Mask_not(k, self) == <<MaskVector_not(k, self[1])>>

(* An assignment that stores the right operand alone. *)
Vec4Mask_bitand_assign_overwrite(k, self, other) == <<other[1]>>

(* The assignment forms: the new value of *self. *)

Vec4Mask_bitand_assign(k, self, other) == <<MaskVector_bitand(k, self[1], other[1])>>

Vec4Mask_bitor_assign(k, self, other) == <<MaskVector_bitor(k, self[1], other[1])>>

BoolStr(b) == IF b THEN "true" ELSE "false"

(* A Display that prints true only for the all-ones word. *)
Vec4Mask_fmt_Display_exact(k, self) ==
    LET arr == as_ref(k, self)
    IN  "[" \o BoolStr(arr[1] = ALL1) \o ", " \o BoolStr(arr[2] = ALL1) \o ", "
            \o BoolStr(arr[3] = ALL1) \o ", " \o BoolStr(arr[4] = ALL1) \o "]"

Vec4Mask_fmt_Display(k, self) ==
    LET arr == as_ref(k, self)
    IN  "[" \o BoolStr(arr[1] # ZERO) \o ", " \o BoolStr(arr[2] # ZERO) \o ", "
            \o BoolStr(arr[3] # ZERO) \o ", " \o BoolStr(arr[4] # ZERO) \o "]"

(* From<Vec4Mask> for [u32; 4]: a copy of the array view. *)
Vec4Mask_into_array(k, mask) == as_ref(k, mask)

(* From<Vec4Mask> for Inner. *)
Vec4Mask_into_inner(k, t) == t[1]

(* A Vec4Mask built directly from four lane words through the crate-visible *)
(* field, as the Vec4 comparisons do.                                       *)
Vec4Mask_from_lanes(k, arr) ==
    IF k = "sse2" THEN <<arr>>
    ELSE <<[x |-> arr[1], y |-> arr[2], z |-> arr[3], w |-> arr[4]]>>

---------------------------------------------------------------------------
(* The client program: mask variables a, b, c in each build, the operation *)
(* last performed, and the value it returned in each build.                *)

(* The numeric vectors select is called with. *)
Vec4Pool == {<<1, 2, 3, 4>>, <<10, 20, 30, 40>>}

(* Lane words outside the two canonical patterns. *)
RawWords == {ZERO, ONE, <<2 ^ 15, 0>>, <<2 ^ 15 - 1, Half - 1>>, ALL1}

NoRet == [k \in Backends |-> "none"]

Op(name, dst, args) == [op |-> name, dst |-> dst, args |-> args]

Init ==
    /\ m = [k \in Backends |-> [r \in Regs |-> Vec4Mask_default(k)]]
    /\ last = Op("default", "c", <<>>)
    /\ ret = NoRet

(* let r = Vec4Mask::new(x, y, z, w); *)
New(r, x, y, z, w) ==
    /\ m' = [k \in Backends |-> [m[k] EXCEPT ![r] = Vec4Mask_new(k, x, y, z, w)]]
    /\ last' = Op("new", r, <<x, y, z, w>>)
    /\ ret' = NoRet

(* let r = Vec4Mask::default(); *)
Default(r) ==
    /\ m' = [k \in Backends |-> [m[k] EXCEPT ![r] = Vec4Mask_default(k)]]
    /\ last' = Op("default", r, <<>>)
    /\ ret' = NoRet

(* let c = a;  (Vec4Mask is Copy) *)
Copy ==
    /\ m' = [k \in Backends |-> [m[k] EXCEPT !["c"] = m[k]["a"]]]
    /\ last' = Op("copy", "c", <<>>)
    /\ ret' = NoRet

(* let d = a & b; *)
BitAnd(d) ==
    /\ m' = [k \in Backends |->
                [m[k] EXCEPT ![d] = Vec4Mask_bitand(k, m[k]["a"], m[k]["b"])]]
    /\ last' = Op("bitand", d, <<>>)
    /\ ret' = NoRet

(* let d = a | b; *)
BitOr(d) ==
    /\ m' = [k \in Backends |->
                [m[k] EXCEPT ![d] = Vec4Mask_bitor(k, m[k]["a"], m[k]["b"])]]
    /\ last' = Op("bitor", d, <<>>)
    /\ ret' = NoRet

(* let d = !a; *)
Not(d) ==
    /\ m' = [k \in Backends |-> [m[k] EXCEPT ![d] = Vec4Mask_not(k, m[k]["a"])]]
    /\ last' = Op("not", d, <<>>)
    /\ ret' = NoRet

(* d &= b;  args records whether c held a copy of d's value beforehand. *)
BitAndAssign(d) ==
    /\ m' = [k \in Backends |->
                [m[k] EXCEPT ![d] = Vec4Mask_bitand_assign(k, m[k][d], m[k]["b"])]]
    /\ last' = Op("bitand_assign", d, <<\A k \in Backends : m[k]["c"] = m[k][d]>>)
    /\ ret' = NoRet

(* d |= b; *)
BitOrAssign(d) ==
    /\ m' = [k \in Backends |->
                [m[k] EXCEPT ![d] = Vec4Mask_bitor_assign(k, m[k][d], m[k]["b"])]]
    /\ last' = Op("bitor_assign", d, <<\A k \in Backends : m[k]["c"] = m[k][d]>>)
    /\ ret' = NoRet

(* The observers take their mask by value or by shared reference and       *)
(* return a result; no mask variable changes.                              *)

(* r.bitmask() *)
Bitmask(r) ==
    /\ ret' = [k \in Backends |-> Vec4Mask_bitmask(k, m[k][r])]
    /\ last' = Op("bitmask", r, <<>>)
    /\ UNCHANGED m

(* r.any() *)
Any(r) ==
    /\ ret' = [k \in Backends |-> Vec4Mask_any(k, m[k][r])]
    /\ last' = Op("any", r, <<>>)
    /\ UNCHANGED m

(* r.all() *)
All(r) ==
    /\ ret' = [k \in Backends |-> Vec4Mask_all(k, m[k][r])]
    /\ last' = Op("all", r, <<>>)
    /\ UNCHANGED m

(* <[u32; 4]>::from(r) *)
IntoArray(r) ==
    /\ ret' = [k \in Backends |-> Vec4Mask_into_array(k, m[k][r])]
    /\ last' = Op("into_array", r, <<>>)
    /\ UNCHANGED m

(* format!("{}", r) *)
FmtDisplay(r) ==
    /\ ret' = [k \in Backends |-> Vec4Mask_fmt_Display(k, m[k][r])]
    /\ last' = Op("fmt_display", r, <<>>)
    /\ UNCHANGED m

(* r.hash(&mut state) on a fresh hasher *)
Hash(r) ==
    /\ ret' = [k \in Backends |-> Vec4Mask_hash(k, m[k][r], <<>>)]
    /\ last' = Op("hash", r, <<>>)
    /\ UNCHANGED m

(* a == b *)
Eq ==
    /\ ret' = [k \in Backends |-> Vec4Mask_eq(k, m[k]["a"], m[k]["b"])]
    /\ last' = Op("eq", "a", <<>>)
    /\ UNCHANGED m

(* a.cmp(&b) *)
Cmp ==
    /\ ret' = [k \in Backends |-> Vec4Mask_cmp(k, m[k]["a"], m[k]["b"])]
    /\ last' = Op("cmp", "a", <<>>)
    /\ UNCHANGED m

(* a.partial_cmp(&b) *)
PartialCmp ==
    /\ ret' = [k \in Backends |-> Vec4Mask_partial_cmp(k, m[k]["a"], m[k]["b"])]
    /\ last' = Op("partial_cmp", "a", <<>>)
    /\ UNCHANGED m

(* a.select(if_true, if_false) *)
Select(if_true, if_false) ==
    /\ ret' = [k \in Backends |-> Vec4Mask_select(k, m[k]["a"], if_true, if_false)]
    /\ last' = Op("select", "a", <<if_true, if_false>>)
    /\ UNCHANGED m

(* The operations that build or replace a mask, with results bound to the *)
(* variables in D.                                                         *)
Mutate(D) ==
    \/ \E r \in {"a", "b"} : \E x, y, z, w \in BOOLEAN : New(r, x, y, z, w)
    \/ \E r \in {"a", "b"} : Default(r)
    \/ \E d \in D : BitAnd(d)
    \/ \E d \in D : BitOr(d)
    \/ \E d \in D : Not(d)
    \/ \E d \in D \ {"b"} : BitAndAssign(d)
    \/ \E d \in D \ {"b"} : BitOrAssign(d)

(* A program over the two masks a and b, observing them as it goes. *)
Next ==
    \/ Mutate({"a", "b"})
    \/ \E r \in {"a", "b"} : Bitmask(r)
    \/ \E r \in {"a", "b"} : Any(r)
    \/ \E r \in {"a", "b"} : All(r)
    \/ \E r \in {"a", "b"} : IntoArray(r)
    \/ \E r \in {"a", "b"} : FmtDisplay(r)
    \/ \E r \in {"a", "b"} : Hash(r)
    \/ Eq
    \/ Cmp
    \/ PartialCmp
    \/ \E if_true, if_false \in Vec4Pool : Select(if_true, if_false)

Spec == Init /\ [][Next]_vars

(* A program that also keeps copies in c and binds results to any of the   *)
(* three variables.                                                        *)
NextFrame ==
    \/ Mutate(Regs)
    \/ Copy

SpecFrame == Init /\ [][NextFrame]_vars

(* Display applied to masks whose lanes hold arbitrary words. *)
InitRaw ==
    /\ \E arr \in [1 .. 4 -> RawWords] :
          m = [k \in Backends |->
                 [r \in Regs |-> IF r = "a" THEN Vec4Mask_from_lanes(k, arr)
                                 ELSE Vec4Mask_default(k)]]
    /\ last = Op("from_lanes", "a", <<>>)
    /\ ret = NoRet

NextRaw == FmtDisplay("a")

SpecRaw == InitRaw /\ [][NextRaw]_vars

---------------------------------------------------------------------------
(* Properties *)

(* 0xFFFFFFFF and 0x00000000, written out. *)
AllOnes == <<65535, 65535>>

AllZero == <<0, 0>>

LaneWord(b) == IF b THEN AllOnes ELSE AllZero

(* The four lane words of mask variable r in build k. *)
View(k, r) == as_ref(k, m[k][r])

(* Lane i (1 .. 4 for x, y, z, w) of r holds true. *)
LaneTrue(k, r, i) == View(k, r)[i] = AllOnes

(* C1: the array view of Vec4Mask::new(x, y, z, w), by as_ref and by the   *)
(* conversion to [u32; 4], is [x ? 0xFFFFFFFF : 0, y ? ..., z ? ..., w ?   *)
(* ...], x at index 0 and w at index 3, in both builds.                    *)
C1_NewArrayView ==
    last.op = "new" =>
        \A k \in Backends :
            LET expected == <<LaneWord(last.args[1]), LaneWord(last.args[2]),
                              LaneWord(last.args[3]), LaneWord(last.args[4])>>
            IN  /\ as_ref(k, m[k][last.dst]) = expected
                /\ Vec4Mask_into_array(k, m[k][last.dst]) = expected

C1_Witness ==
    /\ last.op = "new"
    /\ last.args = <<TRUE, FALSE, FALSE, FALSE>>
    /\ \A k \in Backends : View(k, last.dst) = <<AllOnes, AllZero, AllZero, AllZero>>

(* C2: after any sequence of new, default, &, |, !, &= and |=, every lane  *)
(* of every mask is 0x00000000 or 0xFFFFFFFF.                              *)
C2_LanesWellFormed ==
    \A k \in Backends : \A r \in Regs : \A i \in 1 .. 4 :
        View(k, r)[i] \in {AllZero, AllOnes}

C2_Witness ==
    /\ last.op = "not"
    /\ \A k \in Backends : View(k, last.dst) = <<AllZero, AllOnes, AllZero, AllOnes>>

(* C3: bitmask() is a value in 0 ..= 15 whose bit i is 1 exactly when lane *)
(* i is true (x in bit 0, w in bit 3), bits 4 .. 31 zero; new(true, false, *)
(* false, false) gives 1, new(false, true, false, false) gives 2, all true *)
(* gives 0b1111 and all false gives 0.                                     *)
C3_Bitmask ==
    last.op = "bitmask" =>
        \A k \in Backends :
            LET bit(i) == IF LaneTrue(k, last.dst, i + 1) THEN 2 ^ i ELSE 0
                v == m[k][last.dst]
            IN  /\ ret[k] = <<0, bit(0) + bit(1) + bit(2) + bit(3)>>
                /\ ret[k][1] = 0 /\ ret[k][2] \in 0 .. 15
                /\ v = Vec4Mask_new(k, TRUE, FALSE, FALSE, FALSE) => ret[k] = <<0, 1>>
                /\ v = Vec4Mask_new(k, FALSE, TRUE, FALSE, FALSE) => ret[k] = <<0, 2>>
                /\ v = Vec4Mask_new(k, TRUE, TRUE, TRUE, TRUE) => ret[k] = <<0, 15>>
                /\ v = Vec4Mask_new(k, FALSE, FALSE, FALSE, FALSE) => ret[k] = <<0, 0>>

C3_Witness ==
    /\ last.op = "bitmask"
    /\ \A k \in Backends :
          /\ View(k, last.dst) = <<AllZero, AllOnes, AllZero, AllOnes>>
          /\ ret[k] = <<0, 10>>

(* C4: any() is true exactly when at least one lane is true and all()      *)
(* exactly when every lane is true, for every mask reached; for            *)
(* new(x, y, z, w) they are x || y || z || w and x && y && z && w.         *)
C4_AnyAll ==
    \A k \in Backends :
        /\ last.op = "any" => ret[k] = (\E i \in 1 .. 4 : LaneTrue(k, last.dst, i))
        /\ last.op = "all" => ret[k] = (\A i \in 1 .. 4 : LaneTrue(k, last.dst, i))
        /\ last.op = "new" =>
              /\ Vec4Mask_any(k, m[k][last.dst]) = (\E i \in 1 .. 4 : last.args[i])
              /\ Vec4Mask_all(k, m[k][last.dst]) = (\A i \in 1 .. 4 : last.args[i])

C4_Witness ==
    /\ last.op = "any"
    /\ \A k \in Backends :
          /\ View(k, last.dst) = <<AllZero, AllZero, AllOnes, AllZero>>
          /\ ret[k] = TRUE
          /\ Vec4Mask_all(k, m[k][last.dst]) = FALSE

(* C5: the same inputs and the same operations give, in the vector build  *)
(* and in the scalar build, masks with the same array view, and every     *)
(* observation (==, cmp, hash, bitmask, any, all) returns the same.       *)
C5_BackendsAgree ==
    /\ \A r \in Regs : View("sse2", r) = View("scalar", r)
    /\ ret["sse2"] = ret["scalar"]

C5_Witness ==
    /\ last.op = "cmp"
    /\ View("sse2", "a") = <<AllOnes, AllZero, AllOnes, AllZero>>
    /\ View("scalar", "b") = <<AllOnes, AllOnes, AllZero, AllZero>>
    /\ ret["sse2"] = "Less"
    /\ ret["scalar"] = "Less"

(* The ordering of two well-formed views: the first lane that differs      *)
(* decides, false below true.                                              *)
FirstDiff(p, q) == CHOOSE i \in 1 .. 4 : p[i] # q[i] /\ \A j \in 1 .. i - 1 : p[j] = q[j]

LexOrder(p, q) ==
    IF \A i \in 1 .. 4 : p[i] = q[i] THEN "Equal"
    ELSE IF p[FirstDiff(p, q)] = AllZero THEN "Less" ELSE "Greater"

(* C6: a == b exactly when the four lane words are equal; cmp is the       *)
(* lexicographic order of the array views with lane x most significant and *)
(* false below true; partial_cmp is Some(cmp); cmp is Equal exactly when   *)
(* a == b; equal masks feed the same array to the hasher.                  *)
C6_EqOrdHash ==
    \A k \in Backends :
        LET p == View(k, "a")
            q == View(k, "b")
        IN  /\ last.op = "eq" => ret[k] = (\A i \in 1 .. 4 : p[i] = q[i])
            /\ last.op = "cmp" => ret[k] = LexOrder(p, q)
            /\ last.op = "partial_cmp" => ret[k] = <<"Some", LexOrder(p, q)>>
            /\ (Vec4Mask_cmp(k, m[k]["a"], m[k]["b"]) = "Equal")
                   = Vec4Mask_eq(k, m[k]["a"], m[k]["b"])
            /\ last.op = "hash" => ret[k] = View(k, last.dst)
            /\ Vec4Mask_eq(k, m[k]["a"], m[k]["b"]) =>
                   Vec4Mask_hash(k, m[k]["a"], <<>>) = Vec4Mask_hash(k, m[k]["b"], <<>>)

C6_Witness ==
    /\ last.op = "cmp"
    /\ \A k \in Backends :
          /\ View(k, "a") = <<AllOnes, AllZero, AllOnes, AllOnes>>
          /\ View(k, "b") = <<AllOnes, AllOnes, AllZero, AllZero>>
          /\ ret[k] = "Less"

(* C7: De Morgan: !(a & b) == (!a | !b) and !(a | b) == (!a & !b).         *)
C7_DeMorgan ==
    \A k \in Backends :
        LET a == m[k]["a"]
            b == m[k]["b"]
        IN  /\ Vec4Mask_eq(k, Vec4Mask_not(k, Vec4Mask_bitand(k, a, b)),
                           Vec4Mask_bitor(k, Vec4Mask_not(k, a), Vec4Mask_not(k, b)))
            /\ Vec4Mask_eq(k, Vec4Mask_not(k, Vec4Mask_bitor(k, a, b)),
                           Vec4Mask_bitand(k, Vec4Mask_not(k, a), Vec4Mask_not(k, b)))

C7_Witness ==
    \A k \in Backends :
        /\ View(k, "a") = <<AllOnes, AllZero, AllOnes, AllZero>>
        /\ View(k, "b") = <<AllOnes, AllOnes, AllZero, AllZero>>
        /\ as_ref(k, Vec4Mask_not(k, Vec4Mask_bitand(k, m[k]["a"], m[k]["b"])))
               = <<AllZero, AllOnes, AllOnes, AllOnes>>
        /\ as_ref(k, Vec4Mask_not(k, Vec4Mask_bitor(k, m[k]["a"], m[k]["b"])))
               = <<AllZero, AllZero, AllZero, AllOnes>>

(* C8: select returns, lane by lane, the lane of if_true where the mask    *)
(* lane is true and the lane of if_false otherwise, and leaves the mask    *)
(* unchanged; new(true, false, true, false) with (1, 2, 3, 4) and          *)
(* (10, 20, 30, 40) gives (1, 20, 3, 40).                                  *)
C8_Select ==
    [][last'.op = "select" =>
          /\ m' = m
          /\ \A k \in Backends :
                /\ \A i \in 1 .. 4 :
                      ret'[k][i] = IF LaneTrue(k, "a", i) THEN last'.args[1][i]
                                   ELSE last'.args[2][i]
                /\ (/\ m[k]["a"] = Vec4Mask_new(k, TRUE, FALSE, TRUE, FALSE)
                    /\ last'.args = <<(<<1, 2, 3, 4>>), (<<10, 20, 30, 40>>)>>)
                   => ret'[k] = <<1, 20, 3, 40>>]_vars

C8_Witness ==
    /\ last.op = "select"
    /\ last.args = <<(<<1, 2, 3, 4>>), (<<10, 20, 30, 40>>)>>
    /\ \A k \in Backends :
          /\ View(k, "a") = <<AllOnes, AllZero, AllOnes, AllZero>>
          /\ ret[k] = <<1, 20, 3, 40>>

(* C9: Display prints "[b0, b1, b2, b3]" with bi the boolean word for      *)
(* (lane i != 0), lanes in order x, y, z, w: a nonzero lane prints true    *)
(* even when it is not 0xFFFFFFFF, and new(true, false, true, false)       *)
(* prints "[true, false, true, false]".                                    *)
C9_Display ==
    last.op = "fmt_display" =>
        \A k \in Backends :
            LET word(i) == IF View(k, last.dst)[i] = AllZero THEN "false" ELSE "true"
            IN  /\ ret[k] = "[" \o word(1) \o ", " \o word(2) \o ", "
                                \o word(3) \o ", " \o word(4) \o "]"
                /\ m[k][last.dst] = Vec4Mask_new(k, TRUE, FALSE, TRUE, FALSE)
                       => ret[k] = "[true, false, true, false]"

C9_Witness ==
    /\ last.op = "fmt_display"
    /\ \A k \in Backends :
          /\ View(k, "a") = <<(<<0, 1>>), AllZero, (<<32768, 0>>), (<<32767, 65535>>)>>
          /\ ret[k] = "[true, false, true, true]"

(* C10: after d &= b the new d is (old d) & b, after d |= b it is          *)
(* (old d) | b, and nothing else changes: b keeps its value and so does a  *)
(* copy taken before; &, | and ! change only the variable their result is  *)
(* bound to.                                                               *)
C10_AssignFrame ==
    [][\A k \in Backends :
          /\ last'.op = "bitand_assign" =>
                m'[k] = [m[k] EXCEPT ![last'.dst] =
                                        Vec4Mask_bitand(k, m[k][last'.dst], m[k]["b"])]
          /\ last'.op = "bitor_assign" =>
                m'[k] = [m[k] EXCEPT ![last'.dst] =
                                        Vec4Mask_bitor(k, m[k][last'.dst], m[k]["b"])]
          /\ last'.op \in {"bitand", "bitor", "not"} =>
                \A r \in Regs \ {last'.dst} : m'[k][r] = m[k][r]]_vars

C10_Witness ==
    /\ last.op = "bitand_assign"
    /\ last.dst = "a"
    /\ last.args[1]
    /\ \A k \in Backends :
          /\ View(k, "a") = <<AllOnes, AllZero, AllZero, AllZero>>
          /\ View(k, "b") = <<AllOnes, AllZero, AllOnes, AllZero>>
          /\ View(k, "c") = <<AllOnes, AllOnes, AllZero, AllZero>>

====
